---- MODULE Spec2Model ----
(***************************************************************************)
(* Instana -> BHOM event synchronisation (events_db_vr2.py,                *)
(* lib/commonutility.py, TimerTrigger/__init__.py) as a state machine:     *)
(* the instana_events table, the persisted refresh-token file, the clock,  *)
(* the downstream system's own record of what it created, and the          *)
(* position of each scheduled run of the pipeline.                         *)
(***************************************************************************)
EXTENDS Integers, Sequences, FiniteSets, Bags, TLC

\* ------------------------------------------------------------------ bounds
\* Number of distinct event ids the source can return.
NumIds == 3
\* Longest event list one fetch of the source returns.
MaxFetch == 2
\* batch_size of process_events_in_batches (8500 in the source), scaled down.
BatchSize == 2
\* Last minute of the modelled clock.
MaxTime == 12

\* Token freshness threshold in minutes: "if diff_minutes > 10".
FreshMinutes == 10

\* ------------------------------------------------------------- JSON values
\* Python/JSON values, tagged by type so that values of different types
\* compare unequal instead of being incomparable.
Null == [t |-> "null"]
Str(s) == [t |-> "str", s |-> s]
Num(n) == [t |-> "int", n |-> n]
Map(m) == [t |-> "map", m |-> m]
List(l) == [t |-> "list", l |-> l]
EmptyMap == Map(<< >>)

\* The outcome of a Python call: a returned value, or an exception that
\* leaves the call.
Ok(v) == [raised |-> FALSE, val |-> v]
Raise == [raised |-> TRUE]

\* str.upper() and indexing of the strings that occur in the modelled events.
Upper(s) ==
    CASE s = "open" -> "OPEN"
      [] s = "closed" -> "CLOSED"
      [] s = "web" -> "WEB"
      [] OTHER -> s

StrChars(s) ==
    CASE s = "open" -> <<"o", "p", "e", "n">>
      [] s = "closed" -> <<"c", "l", "o", "s", "e", "d">>
      [] s = "web" -> <<"w", "e", "b">>
      [] s = "" -> << >>
      [] OTHER -> <<s>>

\* str(x) as used by an f-string.
PyStr(v) ==
    CASE v.t = "str" -> v.s
      [] v.t = "int" -> ToString(v.n)
      [] v.t = "null" -> "None"
      [] v.t = "list" -> "[...]"
      [] OTHER -> "{...}"

\* ---------------------------------------------------------- custom mappers
severity_level(sev) == Ok(Str(IF sev = Num(5) THEN "CRITICAL" ELSE "WARNING"))

\* state.upper(): AttributeError for anything that is not a string.
uppercase_state(state) ==
    IF state.t = "str" THEN Ok(Str(Upper(state.s))) ELSE Raise

priority_from_severity(sev) == Ok(Str("PRIORITY_" \o PyStr(sev)))

\* CUSTOM_FUNCTIONS.get(func_name, lambda x: "")(raw_value)
CUSTOM_FUNCTIONS(func_name, raw_value) ==
    CASE func_name = "severity_level" -> severity_level(raw_value)
      [] func_name = "uppercase_state" -> uppercase_state(raw_value)
      [] func_name = "priority_from_severity" -> priority_from_severity(raw_value)
      [] OTHER -> Ok(Str(""))

\* ------------------------------------------------------------ nested access
\* A key path "a.b[0]" after replace("]", "").split("."): a sequence of
\* parts, each a key and the texts that follow a "[" in it.  Such a text is
\* a number, or something int() rejects ("a[first]", "a[").
IntIdx(n) == [int |-> TRUE, n |-> n]
BadIdx == [int |-> FALSE]
Part(key) == [key |-> key, idx |-> << >>]
PartAt(key, n) == [key |-> key, idx |-> <<IntIdx(n)>>]
PartBad(key) == [key |-> key, idx |-> <<BadIdx>>]
PartAt2(key, n, m) == [key |-> key, idx |-> <<IntIdx(n), IntIdx(m)>>]

\* val[key] for a string key: KeyError on a missing key, TypeError on a
\* value that is not a dict.
Subscript(val, key) ==
    IF val.t = "map" /\ key \in DOMAIN val.m THEN Ok(val.m[key]) ELSE Raise

\* val[n] for an integer n; Python counts a negative n from the end.
IndexAt(val, n) ==
    LET pick(seq, wrap(_)) ==
            IF n >= 0 /\ n < Len(seq) THEN Ok(wrap(seq[n + 1]))
            ELSE IF n < 0 /\ -n <= Len(seq) THEN Ok(wrap(seq[Len(seq) + n + 1]))
            ELSE Raise
        same(x) == x
    IN  CASE val.t = "list" -> pick(val.l, same)
          [] val.t = "str" -> pick(StrChars(val.s), Str)
          [] OTHER -> Raise

\* The loop of get_nested_value under its "except (KeyError, IndexError,
\* TypeError)": those three end in None; the ValueError of unpacking
\* "a[0][1]" into key, idx, and the one of int() on a text that is no
\* number (evaluated after val[key]), are not caught and leave the call.
RECURSIVE GetNested(_, _)
GetNested(val, parts) ==
    IF parts = << >> THEN Ok(val)
    ELSE LET part == parts[1]
             byKey == Subscript(val, part.key)
         IN  IF Len(part.idx) > 1 THEN Raise
             ELSE IF byKey.raised THEN Ok(Null)
             ELSE IF part.idx = << >> THEN GetNested(byKey.val, Tail(parts))
             ELSE IF ~part.idx[1].int THEN Raise
             ELSE LET at == IndexAt(byKey.val, part.idx[1].n)
                  IN  IF at.raised THEN Ok(Null) ELSE GetNested(at.val, Tail(parts))

\* get_nested_value: the value at the path, None (Null) on KeyError,
\* IndexError or TypeError, or the exception that was not caught.
get_nested_value(data, key_path) == GetNested(data, key_path)

\* bhom_mapping_reverse_lookup: the source key path of a target field.
bhom_mapping_reverse_lookup(field) ==
    CASE field = <<"severity">> -> <<Part("severity")>>
      [] field = <<"status">> -> <<Part("state")>>
      [] field = <<"priority">> -> <<Part("severity")>>
      [] field = <<"class_slots", "pn_severity">> -> <<Part("severity")>>
      [] OTHER -> [i \in DOMAIN field |-> Part(field[i])]

\* insert_nested_key: d.setdefault(key, {}) along keys[:-1], then
\* d[keys[-1]] = value; a non-dict on the way raises.
RECURSIVE insert_nested_key(_, _, _)
insert_nested_key(d, keys, value) ==
    IF d.t # "map" THEN Raise
    ELSE IF Len(keys) = 1 THEN Ok(Map((keys[1] :> value) @@ d.m))
    ELSE LET k == keys[1]
             child == IF k \in DOMAIN d.m THEN d.m[k] ELSE EmptyMap
             r == insert_nested_key(child, Tail(keys), value)
         IN  IF r.raised THEN Raise ELSE Ok(Map((k :> r.val) @@ d.m))

\* ------------------------------------------------------------ mapping rules
\* A rule string by its prefix: "static:<literal>", "event_data:<p>|<p>...",
\* "func:<name>", anything else.
Static(lit) == [kind |-> "static", lit |-> lit]
Lookup(paths) == [kind |-> "event_data", paths |-> paths]
Func(name) == [kind |-> "func", name |-> name]
Other == [kind |-> "other"]

\* next((get_nested_value(e, k) for k in keys if ... is not None), "")
\* Changed: "if get_nested_value(...)" instead of "... is not None", so
\* that 0 and the empty string are passed over.
RECURSIVE FirstTruthy(_, _)
FirstTruthy(event_data, paths) ==
    IF paths = << >> THEN Ok(Str(""))
    ELSE LET v == get_nested_value(event_data, paths[1])
         IN  IF v.raised THEN Raise
             ELSE IF v.val \notin {Null, Num(0), Str("")} THEN v
             ELSE FirstTruthy(event_data, Tail(paths))

RECURSIVE FirstFound(_, _)
FirstFound(event_data, paths) ==
    IF paths = << >> THEN Ok(Str(""))
    ELSE LET v == get_nested_value(event_data, paths[1])
         IN  IF v.raised THEN Raise
             ELSE IF v.val # Null THEN v
             ELSE FirstFound(event_data, Tail(paths))

RuleValue(event_data, bhom_field, rule) ==
    CASE rule.kind = "static" -> Ok(Str(rule.lit))
      [] rule.kind = "event_data" -> FirstFound(event_data, rule.paths)
      [] rule.kind = "func" ->
            LET raw_value == get_nested_value(event_data, bhom_mapping_reverse_lookup(bhom_field))
            IN  IF raw_value.raised THEN Raise
                ELSE CUSTOM_FUNCTIONS(rule.name, raw_value.val)
      [] OTHER -> Ok(Str(""))

\* One turn of the loop of resolve_bhom_mapping: the rule's value, inserted
\* into the payload.  (The value is bound by a quantifier, here and below,
\* so that it is computed once.)
ResolveEntry(payload, event_data, e) ==
    LET outs == {IF v.raised THEN Raise ELSE insert_nested_key(payload, e.field, v.val) :
                    v \in {RuleValue(event_data, e.field, e.rule)}}
    IN  CHOOSE p \in outs : TRUE

RECURSIVE ResolveFrom(_, _, _)
ResolveFrom(payload, event_data, entries) ==
    IF entries = << >> THEN Ok(<<payload>>)
    ELSE LET outs == {IF p.raised THEN Raise ELSE ResolveFrom(p.val, event_data, Tail(entries)) :
                         p \in {ResolveEntry(payload, event_data, entries[1])}}
         IN  CHOOSE out \in outs : TRUE

\* resolve_bhom_mapping: [payload], or the exception a transform or an
\* insertion raises.
resolve_bhom_mapping(event_data, mapping_config) ==
    ResolveFrom(EmptyMap, event_data, mapping_config)

\* ------------------------------------------------------------------ inputs
EventIds == {"e" \o ToString(n) : n \in 1..NumIds}
Tokens == {"jwtA", "jwtB"}
Pending == {"RECEIVED", "FAILED"}
Runs == {1, 2}

\* Documents the source API can return: an open event with a host for every
\* id, and for one id an open event without the host field, a closed event
\* and a document without a state.  Every document carries an eventId.
Doc(id, state, host) ==
    Map(("eventId" :> Str(id)) @@ ("severity" :> Num(5))
        @@ (IF state = "" THEN << >> ELSE ("state" :> Str(state)))
        @@ (IF host = "" THEN << >> ELSE ("host" :> Str(host))))

SourceDocs ==
    {Doc(id, "open", "web") : id \in EventIds}
        \cup {Doc("e1", "open", ""), Doc("e1", "closed", "web"), Doc("e1", "", "web")}

SeqsUpTo(S, n) == UNION {[1..k -> S] : k \in 0..n}

FetchResponses ==
    {[kind |-> "error"]}
        \cup {[kind |-> "ok", events |-> evs] : evs \in SeqsUpTo(SourceDocs, MaxFetch)}

\* The [bhom_event_mapping] section of config.ini: target field (split at
\* the dots) and rule, in file order.
Entry(field, rule) == [field |-> field, rule |-> rule]

BhomEventMapping ==
    << Entry(<<"severity">>, Func("severity_level")),
       Entry(<<"status">>, Func("uppercase_state")),
       Entry(<<"host">>, Func("uppercase_state")),
       Entry(<<"source_hostname">>, Lookup(<< <<Part("host")>>, <<Part("entity"), Part("name")>> >>)),
       Entry(<<"class_slots", "pn_severity">>, Func("priority_from_severity")),
       Entry(<<"class">>, Static("EVENT")),
       Entry(<<"instana_id">>, Lookup(<< <<Part("eventId")>> >>)) >>

\* The refresh API's answers: a token, a response without a token, a failure
\* (non-success status or transport error).
RefreshResponses ==
    {[kind |-> "ok", token |-> t] : t \in Tokens}
        \cup {[kind |-> "notoken"], [kind |-> "fail"]}

\* The same with one token, for the runs of the pipeline.
PipelineRefresh == {resp \in RefreshResponses : resp.kind = "ok" => resp.token = "jwtB"}

\* The downstream API's answers to a batch of n events of which it created
\* the set `created`: an HTTP status with the count of resource ids in the
\* body, or a transport exception.  A 200 answer lists what was created,
\* or one id more than the batch has; a 201 answer and an exception come
\* with nothing or with everything created, a 500 with nothing.
Http(code, count) == [kind |-> "http", status_code |-> code, resource_count |-> count]
Exception == [kind |-> "exception"]

BhomResponses(n, created) ==
    {Http(200, Cardinality(created))}
        \cup (IF Cardinality(created) = n THEN {Http(200, n + 1)} ELSE {})
        \cup (IF Cardinality(created) \in {0, n} THEN {Http(201, Cardinality(created)), Exception}
              ELSE {})
        \cup (IF created = {} THEN {Http(500, 0)} ELSE {})

\* ------------------------------------------------------------------- state
VARIABLES
    rows,         \* instana_events: the bag of rows (event_id, event_json, status)
    tokenFile,    \* cfg/bhom_refresh_token.json: JSON object, << >> when absent
    now,          \* the clock, in minutes
    config,       \* config["bhom_event_mapping"]
    run,          \* per scheduled run: pc, selected events, batch offset, token
    bhomCreated,  \* event ids the downstream has created
    last          \* the last step taken and what it saw

vars == <<rows, tokenFile, now, config, run, bhomCreated, last>>

NoFile == << >>
Idle == [pc |-> "idle", events |-> << >>, i |-> 0, token |-> ""]

\* ------------------------------------------------------------- event store
\* A row without its serial id and timestamps, which nothing reads; the
\* table is a bag, so two equal rows would still be two rows.
Row(event_id, event_json, status) ==
    [event_id |-> event_id, event_json |-> event_json, status |-> status]

\* Number of rows with this event id.
CountEventId(rws, event_id) == CopiesIn(event_id, BagOfAll(LAMBDA row : row.event_id, rws))

HasEventId(rws, event_id) == \E row \in BagToSet(rws) : row.event_id = event_id

\* Changed: ON CONFLICT (event_id) DO UPDATE, resetting the stored row.
RECURSIVE InsertOrReplace(_, _)
InsertOrReplace(rws, data) ==
    IF data = << >> THEN rws
    ELSE LET d == data[1]
             into == IF HasEventId(rws, d[1])
                     THEN BagOfAll(LAMBDA row : IF row.event_id = d[1]
                                                THEN Row(d[1], d[2], d[3]) ELSE row, rws)
                     ELSE rws (+) SetToBag({Row(d[1], d[2], d[3])})
         IN  InsertOrReplace(into, Tail(data))

\* INSERT ... VALUES %s ON CONFLICT (event_id) DO NOTHING, tuple by tuple.
RECURSIVE InsertOnConflictDoNothing(_, _)
InsertOnConflictDoNothing(rws, data) ==
    IF data = << >> THEN rws
    ELSE LET d == data[1]
             into == IF HasEventId(rws, d[1]) THEN rws
                     ELSE rws (+) SetToBag({Row(d[1], d[2], d[3])})
         IN  InsertOnConflictDoNothing(into, Tail(data))

\* Changed: the UPDATE has no WHERE clause.
UpdateStatusUnscoped(rws, event_ids, status) ==
    BagOfAll(LAMBDA row : [row EXCEPT !.status = status], rws)

\* UPDATE instana_events SET status=... WHERE event_id=%s, for each id.
UpdateStatus(rws, event_ids, status) ==
    BagOfAll(LAMBDA row : IF \E j \in DOMAIN event_ids : event_ids[j] = row.event_id
                          THEN [row EXCEPT !.status = status] ELSE row, rws)

\* Changed: the WHERE clause also matches CREATED.
SelectStatusesAll == Pending \cup {"CREATED"}

\* WHERE status in ('RECEIVED','FAILED')
SelectStatuses == Pending

\* The rows a SELECT with this WHERE clause matches, copy by copy.
Matching(rws, statuses) ==
    {p \in BagToSet(rws) \X (1..BagCardinality(rws)) :
        p[1].status \in statuses /\ p[2] <= CopiesIn(p[1], rws)}

\* SELECT event_id, event_json ...: the matching rows, in an order the
\* query does not fix.
SelectPending(rws) ==
    LET hit == Matching(rws, SelectStatuses)
        n == Cardinality(hit)
        orders == {f \in [1..n -> hit] : \A a, b \in 1..n : a # b => f[a] # f[b]}
    IN  {[j \in 1..n |-> <<f[j][1].event_id, f[j][1].event_json>>] : f \in orders}

\* Changed: process_events_in_batches is called whatever was selected.
HasPendingAlways(events) == TRUE

\* "if rows"
HasPending(events) == events # << >>

\* ---------------------------------------------------------------- ingestion
\* ev.get("eventId"): None when the key is missing.
EventIdOf(ev) == IF "eventId" \in DOMAIN ev.m THEN ev.m["eventId"] ELSE Null

\* [ev for ev in events if ev["state"] == "open"]: KeyError on a document
\* without a state.
FilterRaises(events) == \E k \in DOMAIN events : "state" \notin DOMAIN events[k].m

OpenEvents(events) == SelectSeq(events, LAMBDA ev : ev.m["state"] = Str("open"))

OpenEventsData(events) ==
    LET open == OpenEvents(events)
    IN  [k \in DOMAIN open |-> <<EventIdOf(open[k]).s, open[k], "RECEIVED">>]

\* fetch_instana_events: any exception is logged and swallowed.
FetchedRows(rws, resp) ==
    IF resp.kind # "ok" \/ FilterRaises(resp.events) THEN rws
    ELSE InsertOnConflictDoNothing(rws, OpenEventsData(resp.events))

\* Changed: only the KeyError of the filter is handled, a failed call of
\* the source leaves fetch_instana_events.
FetchEscapesOnError(resp) == resp.kind = "error"

\* Whether a failure leaves fetch_instana_events: "except Exception" around
\* the call, the parsing and the insert catches every one.
FetchEscapes(resp) == FALSE

\* The event ids a fetch hands to the INSERT (none when it failed).
ReturnedOpenIds(resp) ==
    IF resp.kind # "ok" \/ FilterRaises(resp.events) THEN {}
    ELSE {OpenEventsData(resp.events)[k][1] : k \in DOMAIN OpenEvents(resp.events)}

\* The ids of the documents of a response that have a state and are open.
WellFormedOpenIds(resp) ==
    IF resp.kind # "ok" THEN {}
    ELSE {EventIdOf(resp.events[k]).s :
            k \in {k \in DOMAIN resp.events :
                      /\ "state" \in DOMAIN resp.events[k].m
                      /\ resp.events[k].m["state"] = Str("open")}}

\* ---------------------------------------------------------- credential guard
\* What a call of the guard leaves behind: the exception or the token it
\* returns, the token file after it, and whether it called the refresh API.
GuardResult(raised, token, file, refreshed) ==
    [raised |-> raised, token |-> token, file |-> file, refreshed |-> refreshed]

\* The key under which the new token is written to the file.
WrittenTokenKey == "refresh_token"
\* The key under which the persisted token is read back.
ReadTokenKey == "json_web_token"

\* Changed: a failed refresh is swallowed and an empty token returned.
create_new_refresh_token_silent(file, clock, resp) ==
    IF resp.kind # "ok" THEN [raised |-> FALSE, token |-> "", file |-> file, refreshed |-> TRUE]
    ELSE [raised |-> FALSE, token |-> resp.token,
          file |-> ("time" :> clock) @@ ("refresh_token" :> resp.token), refreshed |-> TRUE]

\* _create_new_refresh_token: raise_for_status, a missing json_web_token and
\* every other failure end in RuntimeError; otherwise the file is rewritten.
create_new_refresh_token(file, clock, resp) ==
    IF resp.kind # "ok" THEN GuardResult(TRUE, "", file, TRUE)
    ELSE GuardResult(FALSE, resp.token,
                     ("time" :> clock) @@ (WrittenTokenKey :> resp.token), TRUE)

\* "if diff_minutes > 10"
IsStale(diff_minutes) == diff_minutes > FreshMinutes

\* get_valid_refresh_token: regenerate when the file is absent or empty,
\* has no time, is stale, or (KeyError) lacks the key that is read.
get_valid_refresh_token(file, clock, resp) ==
    IF file = NoFile THEN create_new_refresh_token(file, clock, resp)
    ELSE IF "time" \notin DOMAIN file THEN create_new_refresh_token(file, clock, resp)
    ELSE IF IsStale(clock - file["time"]) THEN create_new_refresh_token(file, clock, resp)
    ELSE IF ReadTokenKey \notin DOMAIN file THEN create_new_refresh_token(file, clock, resp)
    ELSE GuardResult(FALSE, file[ReadTokenKey], file, FALSE)

\* ------------------------------------------------------- batch reconciliation
\* "if response.status_code == 200"
IsSuccessStatus(status_code) == status_code = 200

\* The status the batch's events get (lines 196-215): CREATED only for
\* status 200 with as many resource ids as events.
BatchStatus(resp, batch_len) ==
    IF resp.kind = "exception" THEN "FAILED"
    ELSE IF IsSuccessStatus(resp.status_code)
         THEN IF resp.resource_count # batch_len THEN "FAILED" ELSE "CREATED"
         ELSE "FAILED"

\* Changed: on a count mismatch the first resource_count events are marked
\* CREATED and only the rest FAILED.
ReconcilePartial(rws, event_ids, resp) ==
    IF resp.kind = "http" /\ resp.status_code = 200 /\ resp.resource_count < Len(event_ids)
    THEN UpdateStatus(UpdateStatus(rws, event_ids, "FAILED"),
                      SubSeq(event_ids, 1, resp.resource_count), "CREATED")
    ELSE UpdateStatus(rws, event_ids, BatchStatus(resp, Len(event_ids)))

\* The UPDATE of one batch, committed in the finally clause.
Reconcile(rws, event_ids, resp) ==
    UpdateStatus(rws, event_ids, BatchStatus(resp, Len(event_ids)))

\* Changed: only HTTP errors are caught, a transport exception escapes.
BatchEscapesOnException(resp) == resp.kind = "exception"

\* Whether a failed submission leaves the loop: "except Exception" catches
\* every one of them.
BatchEscapes(resp) == FALSE

Min(a, b) == IF a < b THEN a ELSE b

\* Changed: events[i:i + batch_size + 1]
BatchAtOverlapping(events, i) == SubSeq(events, i + 1, Min(i + BatchSize + 1, Len(events)))

\* events[i:i + batch_size]
BatchAt(events, i) == SubSeq(events, i + 1, Min(i + BatchSize, Len(events)))

\* ------------------------------------------------------------------ actions
\* The table exists and is empty; the token file is absent, or was put
\* there with the key the guard reads.
Init ==
    /\ rows = EmptyBag
    /\ tokenFile \in {NoFile, ("time" :> 0) @@ (ReadTokenKey :> "jwtA")}
    /\ now = 0
    /\ config = BhomEventMapping
    /\ run = [r \in Runs |-> Idle]
    /\ bhomCreated = {}
    /\ last = [op |-> "init"]

\* init_db and fetch_instana_events of one run.  init_db has no handler of
\* its own: when the store cannot be reached its exception ends the run.
Fetch(r, responses) ==
    /\ run[r].pc = "idle"
    /\ \/ /\ rows' = rows
          /\ run' = [run EXCEPT ![r] = [Idle EXCEPT !.pc = "failed"]]
          /\ last' = [op |-> "init_db_error", r |-> r]
       \/ /\ \E resp \in responses :
              /\ rows' = FetchedRows(rows, resp)
              /\ last' = [op |-> "fetch", r |-> r, kind |-> resp.kind,
                          ids |-> ReturnedOpenIds(resp),
                          open |-> WellFormedOpenIds(resp),
                          known |-> {id \in ReturnedOpenIds(resp) : HasEventId(rows, id)}]
              /\ run' = [run EXCEPT ![r] =
                            IF FetchEscapes(resp) THEN [Idle EXCEPT !.pc = "failed"]
                            ELSE [Idle EXCEPT !.pc = "fetched"]]
    /\ UNCHANGED <<tokenFile, now, config, bhomCreated>>

\* process_all_events up to "if rows": the run ends when nothing is pending.
Select(r) ==
    /\ run[r].pc = "fetched"
    /\ \E events \in SelectPending(rows) :
        /\ run' = [run EXCEPT ![r] =
                      IF ~HasPending(events) THEN [Idle EXCEPT !.pc = "done"]
                      ELSE [Idle EXCEPT !.pc = "selected", !.events = events]]
        /\ last' = [op |-> "select", r |-> r]
    /\ UNCHANGED <<rows, tokenFile, now, config, bhomCreated>>

\* process_events_in_batches up to the loop: the credential guard; its
\* RuntimeError ends the run.
Guard(r, responses) ==
    /\ run[r].pc = "selected"
    /\ \E resp \in responses :
        LET g == get_valid_refresh_token(tokenFile, now, resp)
        IN  /\ tokenFile' = g.file
            /\ run' = [run EXCEPT ![r] =
                          IF g.raised THEN [Idle EXCEPT !.pc = "failed"]
                          ELSE [@ EXCEPT !.pc = "batching", !.token = g.token]]
            /\ last' = [op |-> "guard", r |-> r, raised |-> g.raised,
                        refreshed |-> g.refreshed, token |-> g.token,
                        answer |-> IF g.refreshed THEN resp.kind ELSE "unused"]
    /\ UNCHANGED <<rows, now, config, bhomCreated>>

\* What a run that ends inside the loop leaves behind in the log: the ids
\* of the batches it committed and of the events it had still to commit.
Aborted(op, r) ==
    LET events == run[r].events
        i == run[r].i
    IN  [op |-> op, r |-> r,
         done |-> {events[j][1] : j \in 1..i},
         left |-> {events[j][1] : j \in (i + 1)..Len(events)}]

\* One turn of the loop: resolve the batch, submit it, reconcile, commit.
\* A resolution that raises is outside the try block and ends the run; so
\* does an UPDATE the store rejects, whose exception leaves the handler
\* with the transaction rolled back.
ProcessBatch(r) ==
    /\ run[r].pc = "batching"
    /\ LET events == run[r].events
           i == run[r].i
           batch == BatchAt(events, i)
           event_ids == [k \in DOMAIN batch |-> batch[k][1]]
           ids == {event_ids[k] : k \in DOMAIN event_ids}
           more == i + BatchSize < Len(events)
       IN  \E resolved \in {[k \in DOMAIN batch |-> resolve_bhom_mapping(batch[k][2], config)]} :
           IF \E k \in DOMAIN batch : resolved[k].raised
           THEN /\ run' = [run EXCEPT ![r] = [Idle EXCEPT !.pc = "failed"]]
                /\ last' = Aborted("resolve_error", r)
                /\ UNCHANGED <<rows, bhomCreated>>
           ELSE \E created \in SUBSET ids :
                \E resp \in BhomResponses(Len(batch), created) :
                    /\ bhomCreated' = bhomCreated \cup created
                    /\ \/ /\ rows' = Reconcile(rows, event_ids, resp)
                          /\ run' = [run EXCEPT ![r] =
                                        IF BatchEscapes(resp) THEN [Idle EXCEPT !.pc = "failed"]
                                        ELSE IF ~more THEN [Idle EXCEPT !.pc = "done"]
                                        ELSE [@ EXCEPT !.i = i + BatchSize]]
                          /\ last' = [op |-> "batch", r |-> r, ids |-> ids, n |-> Len(batch),
                                      resp |-> resp, more |-> more,
                                      resubmitted |-> ids \cap bhomCreated # {},
                                      token |-> run[r].token,
                                      request |-> [k \in DOMAIN batch |-> resolved[k].val[1]]]
                       \/ /\ rows' = rows
                          /\ run' = [run EXCEPT ![r] = [Idle EXCEPT !.pc = "failed"]]
                          /\ last' = Aborted("update_error", r)
    /\ UNCHANGED <<tokenFile, now, config>>

\* The process dies inside the loop, between two batches or before the
\* commit of one: the open transaction is lost and nothing returns.
Crash(r) ==
    /\ run[r].pc = "batching"
    /\ run' = [run EXCEPT ![r] = Idle]
    /\ last' = Aborted("crash", r)
    /\ UNCHANGED <<rows, tokenFile, now, config, bhomCreated>>

\* Changed: no handler around the pipeline, as in the script's __main__.
MainOutcomeUncaught(pc) == IF pc = "failed" THEN "exception" ELSE "completed"

\* What the scheduler sees of main: "except Exception" logs the failure and
\* the function completes.
MainOutcome(pc) == "completed"

\* The run returns to its caller: normally ("Cycle complete"), or with the
\* exception that the timer trigger's main logs ("Pipeline execution failed").
Finish(r) ==
    /\ run[r].pc \in {"done", "failed"}
    /\ run' = [run EXCEPT ![r] = Idle]
    /\ last' = [op |-> "finish", r |-> r, failed |-> run[r].pc = "failed",
                outcome |-> MainOutcome(run[r].pc)]
    /\ UNCHANGED <<rows, tokenFile, now, config, bhomCreated>>

\* A minute passes.
Tick ==
    /\ now < MaxTime
    /\ now' = now + 1
    /\ UNCHANGED <<rows, tokenFile, config, run, bhomCreated, last>>

\* Scheduled runs one after another.  The clock stands still here: only the
\* guard reads it, and each of its outcomes (the file's token reused, a
\* refresh that succeeds, one that fails) is reached without it.
Next ==
    \/ Fetch(1, FetchResponses)
    \/ Select(1)
    \/ Guard(1, PipelineRefresh)
    \/ ProcessBatch(1)
    \/ Crash(1)
    \/ Finish(1)

Spec == Init /\ [][Next]_vars

\* The same under the conditions of a retry that can succeed: the timer
\* keeps scheduling runs and the store is reached again and again, a run
\* that started goes on, the guard yields a token again and again, the loop
\* gets to its next turn again and again (the process does not die in
\* every run), and the downstream accepts a batch with a matching count
\* again and again.
RunStarts(r) == Fetch(r, FetchResponses) /\ run'[r].pc = "fetched"

GuardPasses(r) == Guard(r, PipelineRefresh) /\ ~last'.raised

Accepted(r) == ProcessBatch(r) /\ last'.op = "batch" /\ last'.resp = Http(200, last'.n)

SpecLive ==
    /\ Init
    /\ [][Next]_vars
    /\ SF_vars(RunStarts(1))
    /\ WF_vars(Select(1))
    /\ SF_vars(GuardPasses(1))
    /\ SF_vars(ProcessBatch(1))
    /\ SF_vars(Accepted(1))
    /\ WF_vars(Finish(1))

\* Runs that may overlap: a second invocation starts while the first is
\* still running.  Here the source returns open events of two ids.
OverlapResponses ==
    {[kind |-> "ok", events |-> evs] :
        evs \in SeqsUpTo({Doc(id, "open", "web") : id \in {"e1", "e2"}}, MaxFetch)}

InitOverlap == Init /\ tokenFile = NoFile

NextOverlap ==
    \E r \in Runs :
        \/ Fetch(r, OverlapResponses)
        \/ Select(r)
        \/ Guard(r, PipelineRefresh)
        \/ ProcessBatch(r)
        \/ Crash(r)
        \/ Finish(r)

SpecOverlap == InitOverlap /\ [][NextOverlap]_vars

\* The credential guard on its own: calls at any minute of the clock.
GuardCall ==
    /\ \E resp \in RefreshResponses :
        LET g == get_valid_refresh_token(tokenFile, now, resp)
        IN  /\ tokenFile' = g.file
            /\ last' = [op |-> "guardcall", raised |-> g.raised, token |-> g.token,
                        refreshed |-> g.refreshed, file |-> tokenFile, at |-> now]
    /\ UNCHANGED <<rows, now, config, run, bhomCreated>>

NextToken == GuardCall \/ Tick

SpecToken == Init /\ [][NextToken]_vars

\* The mapping functions on their own: resolutions of bounded payloads
\* under bounded mapping sections, and lookups under bounded key paths.
\* Longest fallback chain of an event_data rule.
MaxChain == 3

\* Payloads with a string, a zero, an empty string, a null, a nested object
\* and a list.
LookupDocs ==
    {Map(("host" :> Str("web")) @@ ("severity" :> Num(0)) @@ ("name" :> Str(""))
         @@ ("note" :> Null) @@ ("entity" :> Map("name" :> Str("open")))
         @@ ("tags" :> List(<<Str("closed"), Num(7)>>))),
     Map(("host" :> Str("web")) @@ ("entity" :> EmptyMap) @@ ("tags" :> List(<< >>))),
     Map(("severity" :> Num(5)) @@ ("tags" :> Str("web"))),
     EmptyMap}

\* Key paths as a configuration can spell them.
LookupPaths ==
    {<<Part(k)>> : k \in {"host", "severity", "name", "note", "entity", "tags"}}
        \cup {<<Part("entity"), Part("name")>>, <<Part("host"), Part("name")>>,
              <<Part("note"), Part("name")>>, <<PartAt("tags", 0), Part("name")>>}
        \cup {<<PartAt(k, n)>> : k \in {"tags", "host", "entity", "severity"}, n \in {-1, 0, 1, 2}}
        \cup {<<PartBad(k)>> : k \in {"tags", "host", "note", "missing"}}
        \cup {<<PartAt2("tags", 0, 1)>>}

\* The paths the fallback chains are built from.
ChainPaths ==
    {<<Part("note")>>, <<Part("severity")>>, <<Part("name")>>, <<Part("host")>>,
     <<Part("entity"), Part("name")>>, <<PartAt("tags", 1)>>, <<PartBad("tags")>>}

\* Mapping sections: one event_data rule with a fallback chain, two rules
\* with nested targets, one target a prefix of the other (in both orders),
\* and rules of the other kinds.
MappingInputs ==
    {<<Entry(<<"out">>, Lookup(chain))>> : chain \in SeqsUpTo(ChainPaths, MaxChain) \ {<< >>}}
        \cup {<<Entry(<<"a", "b">>, Lookup(<< <<Part("host")>> >>)), Entry(<<"a", "c">>, Static("y"))>>,
              <<Entry(<<"a">>, Static("x")), Entry(<<"a", "b">>, Lookup(<< <<Part("host")>> >>))>>,
              <<Entry(<<"a", "b">>, Lookup(<< <<Part("host")>> >>)), Entry(<<"a">>, Static("x"))>>,
              <<Entry(<<"host">>, Func("uppercase_state")), Entry(<<"kind">>, Other),
                Entry(<<"priority">>, Func("priority_from_severity")),
                Entry(<<"level">>, Func("no_such_function"))>>}

InitMapping ==
    /\ rows = EmptyBag
    /\ tokenFile = NoFile
    /\ now = 0
    /\ config \in MappingInputs
    /\ run = [r \in Runs |-> Idle]
    /\ bhomCreated = {}
    /\ last = [op |-> "init"]

\* A call of get_nested_value.
LookupCall ==
    /\ \E data \in LookupDocs, key_path \in LookupPaths :
        last' = [op |-> "lookup", data |-> data, key_path |-> key_path,
                 res |-> get_nested_value(data, key_path)]
    /\ UNCHANGED <<rows, tokenFile, now, config, run, bhomCreated>>

\* A call of resolve_bhom_mapping with the mapping section read at start.
ResolveCall ==
    /\ \E event_data \in LookupDocs :
        last' = [op |-> "resolve", event_data |-> event_data,
                 res |-> resolve_bhom_mapping(event_data, config)]
    /\ UNCHANGED <<rows, tokenFile, now, config, run, bhomCreated>>

NextMapping == ResolveCall

SpecMapping == InitMapping /\ [][NextMapping]_vars

InitLookup == Init /\ tokenFile = NoFile

NextLookup == LookupCall

SpecLookup == InitLookup /\ [][NextLookup]_vars

\* ------------------------------------------------------------------ claims
\* The statuses of the rows with one of these event ids.
StatusesOf(ids) == {row.status : row \in {row \in BagToSet(rows) : row.event_id \in ids}}

\* What a select has to return: the pending rows' ids and payloads.
PendingPairs ==
    {<<row.event_id, row.event_json>> : row \in {row \in BagToSet(rows) : row.status \in Pending}}

IngestStep == \E r \in Runs : run[r].pc = "idle" /\ run'[r].pc = "fetched"

\* The lookup as the words "fails softly" describe it: the value at the
\* path when every part names a key of a map and every index is within the
\* list it is applied to, and nothing ("not found") otherwise.
RECURSIVE SoftLookup(_, _)
SoftLookup(val, parts) ==
    IF parts = << >> THEN val
    ELSE LET part == parts[1]
         IN  IF val.t # "map" \/ part.key \notin DOMAIN val.m THEN Null
             ELSE IF part.idx = << >> THEN SoftLookup(val.m[part.key], Tail(parts))
             ELSE LET at == val.m[part.key]
                      n == part.idx[1].n
                  IN  IF /\ Len(part.idx) = 1
                         /\ part.idx[1].int
                         /\ at.t = "list"
                         /\ n >= 0
                         /\ n < Len(at.l)
                      THEN SoftLookup(at.l[n + 1], Tail(parts))
                      ELSE Null

\* Whether a path indexes a string or counts an index from the end, where
\* Python yields a character or an element.
RECURSIVE IndexesLeniently(_, _)
IndexesLeniently(val, parts) ==
    /\ parts # << >>
    /\ val.t = "map"
    /\ parts[1].key \in DOMAIN val.m
    /\ LET at == val.m[parts[1].key]
           idx == parts[1].idx
       IN  IF idx = << >> THEN IndexesLeniently(at, Tail(parts))
           ELSE /\ Len(idx) = 1
                /\ idx[1].int
                /\ \/ at.t = "str"
                   \/ idx[1].n < 0
                   \/ at.t = "list" /\ idx[1].n < Len(at.l)
                                    /\ IndexesLeniently(at.l[idx[1].n + 1], Tail(parts))

\* The value a document holds at a dotted target path, if it holds one.
RECURSIVE ValueAt(_, _)
ValueAt(d, keys) ==
    IF d.t # "map" \/ keys[1] \notin DOMAIN d.m THEN Raise
    ELSE IF Len(keys) = 1 THEN Ok(d.m[keys[1]])
    ELSE ValueAt(d.m[keys[1]], Tail(keys))

\* One target path is a proper prefix of the other.
IsPrefix(f, g) == Len(f) < Len(g) /\ SubSeq(g, 1, Len(f)) = f

PrefixFree(mapping_config) ==
    \A j, k \in DOMAIN mapping_config :
        ~IsPrefix(mapping_config[j].field, mapping_config[k].field)

\* C1: no batch submission contains an event id that the downstream has
\* already created in an earlier submission.
C1_NoResubmissionOfCreated == last.op = "batch" => ~last.resubmitted

\* Right after a select the run holds exactly the pending records, each
\* once, and every event a run has still to submit is pending in the store.
C2_SelectsExactlyPending ==
    /\ last.op = "select" =>
          LET events == run[last.r].events
          IN  /\ {events[j] : j \in DOMAIN events} = PendingPairs
              /\ Len(events) = Cardinality(Matching(rows, Pending))
    /\ \A r \in Runs : run[r].pc \in {"selected", "batching"} =>
          \A j \in (run[r].i + 1)..Len(run[r].events) :
              StatusesOf({run[r].events[j][1]}) \subseteq Pending

\* A step leaves a CREATED record CREATED.
C2_CreatedStaysCreated ==
    \A row \in BagToSet(rows) :
        row.status = "CREATED" => CopiesIn(row, rows') >= CopiesIn(row, rows)

\* C2: with runs one after another, a select returns exactly the records
\* that are RECEIVED or FAILED, so that a CREATED record is never selected
\* and never submitted, and no step changes the status of a CREATED record.
C2_CreatedIsTerminal == [](C2_SelectsExactlyPending) /\ [][C2_CreatedStaysCreated]_vars

C2_Witness ==
    /\ last.op = "select"
    /\ run[1].pc = "selected"
    /\ "CREATED" \in StatusesOf(EventIds)

\* C3: with overlapping runs, no step sets a record that is CREATED back to
\* FAILED.
C3_NoRegressionWhenOverlapping ==
    [][\A row \in BagToSet(rows) :
          row.status = "CREATED" => ~BagIn([row EXCEPT !.status = "FAILED"], rows')]_vars

\* C4: after a batch's commit all its events have one status, and FAILED
\* when a 200 response lists a number of resource ids other than the batch
\* size.
C4_BatchAllOrNothing ==
    last.op = "batch" =>
        /\ Cardinality(StatusesOf(last.ids)) = 1
        /\ (/\ last.resp.kind = "http"
            /\ last.resp.status_code = 200
            /\ last.resp.resource_count # last.n) => StatusesOf(last.ids) = {"FAILED"}

C4_Witness ==
    /\ last.op = "batch"
    /\ last.n = 2
    /\ last.resp = Http(200, 1)

\* C5: a batch answered with any 2xx status and as many resource ids as
\* events is marked CREATED.
C5_Any2xxWithMatchingCountIsCreated ==
    (/\ last.op = "batch"
     /\ last.resp.kind = "http"
     /\ last.resp.status_code \in 200..299
     /\ last.resp.resource_count = last.n) => StatusesOf(last.ids) = {"CREATED"}

\* C6: a batch answered with a status other than 200 or ended by a transport
\* exception is FAILED as a whole, the run does not end with an error, and
\* it goes on with the next batch when one is left.
C6_FailedBatchIsIsolated ==
    (/\ last.op = "batch"
     /\ (last.resp.kind = "exception" \/ last.resp.status_code # 200)) =>
        /\ StatusesOf(last.ids) = {"FAILED"}
        /\ run[last.r].pc # "failed"
        /\ IF last.more
           THEN LET events == run[last.r].events
                    i == run[last.r].i
                IN  /\ run[last.r].pc = "batching"
                    /\ i < Len(events)
                    /\ i >= last.n
                    /\ {events[j][1] : j \in (i - last.n + 1)..i} = last.ids
           ELSE run[last.r].pc = "done"

C6_Witness ==
    /\ last.op = "batch"
    /\ last.resp.kind = "exception"
    /\ last.more
    /\ run[1].pc = "batching"

\* C7: a mapping resolution that fails for one event never ends the run.
C7_ResolutionFailureIsMasked == last.op # "resolve_error"

\* No two rows share an event id, and every id an ingest was handed is stored.
C8_OneRecordPerId ==
    /\ \A id \in EventIds : CountEventId(rows, id) <= 1
    /\ last.op = "fetch" => \A id \in last.ids : CountEventId(rows, id) = 1

\* A step keeps every row with its id and payload, and an ingest keeps its
\* status too.
C8_RecordsKept ==
    /\ \A id \in EventIds : CountEventId(rows', id) >= CountEventId(rows, id)
    /\ \A row \in BagToSet(rows) :
          IF IngestStep THEN CopiesIn(row, rows') >= CopiesIn(row, rows)
          ELSE \E after \in BagToSet(rows') :
                  after.event_id = row.event_id /\ after.event_json = row.event_json

\* C8: the store holds exactly one record per event id however often the
\* source returns it, no step changes a record's id or payload, and an ingest
\* changes no existing record's status.
C8_IngestIsIdempotent == [](C8_OneRecordPerId) /\ [][C8_RecordsKept]_vars

C8_Witness ==
    /\ last.op = "fetch"
    /\ \E row \in BagToSet(rows) : row.event_id \in last.known /\ row.status = "CREATED"
    /\ \E row \in BagToSet(rows) : row.event_id \in last.known /\ row.status = "FAILED"

\* C9: a token file written by an earlier refresh is reused as it is while
\* younger than the threshold, and replaced by a refresh when older.
C9_FreshTokenIsReused ==
    (last.op = "guardcall" /\ WrittenTokenKey \in DOMAIN last.file) =>
        LET age == last.at - last.file["time"]
        IN  /\ age < FreshMinutes =>
                /\ ~last.refreshed
                /\ ~last.raised
                /\ last.token = last.file[WrittenTokenKey]
                /\ tokenFile = last.file
            /\ age > FreshMinutes =>
                /\ last.refreshed
                /\ ~last.raised => tokenFile["time"] = last.at

\* A refresh that fails or brings no token ends the run with an error.
C10_GuardFailureEndsRun ==
    (last.op = "guard" /\ last.answer \in {"fail", "notoken"}) =>
        last.raised /\ run[last.r].pc = "failed"

\* The failing guard step and the failed run change no record and submit
\* nothing; the failed run only returns.
C10_NothingTouched ==
    \A r \in Runs :
        /\ (run[r].pc = "selected" /\ run'[r].pc = "failed") =>
              rows' = rows /\ bhomCreated' = bhomCreated
        /\ run[r].pc = "failed" =>
              run'[r].pc \in {"failed", "idle"} /\ rows' = rows /\ bhomCreated' = bhomCreated

\* C10: when the guard has to refresh and the refresh fails or brings no
\* token, the run ends with an error without submitting a batch, and every
\* record keeps its status.
C10_RefreshFailureLeavesPending ==
    [](C10_GuardFailureEndsRun) /\ [][C10_NothingTouched]_vars

C10_Witness ==
    /\ last.op = "guard"
    /\ last.answer = "fail"
    /\ run[1].pc = "failed"
    /\ "FAILED" \in StatusesOf(EventIds)
    /\ "RECEIVED" \in StatusesOf(EventIds)

\* An exception that leaves the pipeline leaves the run failed.
C11_FailureIsOnItsWayToMain ==
    (\/ last.op \in {"init_db_error", "resolve_error", "update_error"}
     \/ last.op = "guard" /\ last.raised) => run[last.r].pc = "failed"

\* The only step of a failed run is main's return, and it is a completion.
C11_MainReturns ==
    \A r \in Runs :
        (run[r].pc \in {"done", "failed"} /\ run'[r] # run[r]) =>
            /\ run'[r] = Idle
            /\ last' = [op |-> "finish", r |-> r, failed |-> run[r].pc = "failed",
                        outcome |-> "completed"]

\* C11: the timer trigger's main completes and hands no exception to the
\* scheduler, whether the run ended normally or store initialisation,
\* credential refresh, mapping resolution or a status update failed (a
\* failed fetch or submission does not even reach main).
C11_MainAlwaysCompletes == [](C11_FailureIsOnItsWayToMain) /\ [][C11_MainReturns]_vars

C11_Witness ==
    /\ last.op = "finish"
    /\ last.failed
    /\ last.outcome = "completed"
    /\ "FAILED" \in StatusesOf(EventIds)

\* C12: when runs keep being scheduled, a token is obtainable and the
\* downstream keeps accepting batches, every record of the store is
\* eventually CREATED.
C12_EveryRecordEventuallyCreated ==
    \A id \in EventIds : [](HasEventId(rows, id) => <>(StatusesOf({id}) = {"CREATED"}))

\* C13: for an event_data rule with a fallback chain, the resolved
\* document holds at the rule's target the value of the first path, left to
\* right, that is present and not null in the payload (a present 0 or
\* empty string wins), and the empty string when there is no such path.
\* The lookup is get_nested_value's; targets that are prefixes of one
\* another are set aside here.
C13_FirstPresentPathWins ==
    (last.op = "resolve" /\ ~last.res.raised /\ PrefixFree(config)) =>
        \A k \in DOMAIN config :
            config[k].rule.kind = "event_data" =>
                LET paths == config[k].rule.paths
                    lookup(j) == get_nested_value(last.event_data, paths[j])
                    found == {j \in DOMAIN paths : ~lookup(j).raised /\ lookup(j).val # Null}
                    first == CHOOSE j \in found : \A h \in found : j <= h
                IN  ValueAt(last.res.val[1], config[k].field) =
                        IF found = {} THEN Ok(Str("")) ELSE lookup(first)

C13_Witness ==
    /\ last.op = "resolve"
    /\ ~last.res.raised
    /\ config = <<Entry(<<"out">>,
                        Lookup(<< <<Part("note")>>, <<Part("severity")>>, <<Part("host")>> >>))>>
    /\ SoftLookup(last.event_data, <<Part("host")>>) = Str("web")
    /\ ValueAt(last.res.val[1], <<"out">>) = Ok(Num(0))

\* After a run ended inside the loop, the events of its committed batches
\* have a status a reconciliation writes, and the events it had still to
\* commit are pending.
C14_AfterAbort ==
    last.op \in {"crash", "resolve_error", "update_error"} =>
        /\ StatusesOf(last.done) \subseteq {"CREATED", "FAILED"}
        /\ StatusesOf(last.left) \subseteq Pending
        /\ \A id \in last.done \cup last.left : HasEventId(rows, id)

\* Between its selection and its end a run changes no row but those of the
\* batch it commits, and a step that ends it inside the loop changes none.
C14_OnlyBatchTouched ==
    \A r \in Runs :
        /\ (run[r].pc = "selected" /\ run'[r] # run[r]) => rows' = rows
        /\ (run[r].pc = "batching" /\ run'[r] # run[r]) =>
              LET batch == BatchAt(run[r].events, run[r].i)
                  ids == {batch[k][1] : k \in DOMAIN batch}
              IN  /\ \A row \in BagToSet(rows) :
                        row.event_id \notin ids => CopiesIn(row, rows') = CopiesIn(row, rows)
                  /\ last'.op \in {"crash", "resolve_error", "update_error"} => rows' = rows

\* C14: when a run ends inside the loop after k batches, by a crash or an
\* exception, the statuses committed for those k batches stay, and every
\* event of the remaining batches has the status it was selected with,
\* RECEIVED or FAILED.
C14_CommittedPerBatch == [](C14_AfterAbort) /\ [][C14_OnlyBatchTouched]_vars

C14_Witness ==
    /\ last.op = "crash"
    /\ "CREATED" \in StatusesOf(last.done)
    /\ StatusesOf(last.left) = {"RECEIVED"}

\* A run's selection has no event id twice, and the loop stands at a
\* multiple of the batch size inside the selection.
C15_SelectionState ==
    \A r \in Runs :
        LET events == run[r].events
        IN  /\ \A j, k \in DOMAIN events : events[j][1] = events[k][1] => j = k
            /\ run[r].pc = "selected" => run[r].i = 0 /\ events # << >>
            /\ run[r].pc = "batching" => run[r].i < Len(events) /\ run[r].i % BatchSize = 0

\* A submission carries the next slice of the selection, at most a batch
\* size long, its k-th payload resolved from the stored document of the
\* slice's k-th event id, and the loop moves on behind the slice.
C15_NextSlice ==
    \A r \in Runs :
        (run[r].pc = "batching" /\ last'.op = "batch" /\ last'.r = r /\ last' # last) =>
            LET events == run[r].events
                i == run[r].i
                n == last'.n
            IN  /\ n >= 1
                /\ n = Min(BatchSize, Len(events) - i)
                /\ last'.ids = {events[j][1] : j \in (i + 1)..(i + n)}
                /\ DOMAIN last'.request = 1..n
                /\ \A k \in 1..n :
                      \E row \in BagToSet(rows) :
                          /\ row.event_id = events[i + k][1]
                          /\ resolve_bhom_mapping(row.event_json, config) = Ok(<<last'.request[k]>>)
                /\ IF i + n < Len(events)
                   THEN run'[r] = [run[r] EXCEPT !.i = i + n]
                   ELSE run'[r].pc = "done"

\* C15: a run cuts its selection, in selection order, into consecutive
\* slices of at most batch_size events, submits each slice once and in
\* order, and the k-th payload of a request is the resolved payload of the
\* slice's k-th event id.
C15_BatchesPartitionSelection == [](C15_SelectionState) /\ [][C15_NextSlice]_vars

C15_Witness ==
    /\ last.op = "batch"
    /\ last.more
    /\ last.n = BatchSize
    /\ last.request[1] # last.request[2]
    /\ run[1].pc = "batching"
    /\ run[1].i = BatchSize

\* C16: a fetch whose call of the source failed returns normally, inserts
\* no record and changes no record.
C16_FailedFetchChangesNothing ==
    [][\A r \in Runs :
          (run[r].pc = "idle" /\ last'.op = "fetch" /\ last'.r = r /\ last'.kind = "error") =>
              rows' = rows /\ run'[r].pc = "fetched"]_vars

C16_Witness ==
    /\ last.op = "fetch"
    /\ last.kind = "error"
    /\ run[1].pc = "fetched"
    /\ StatusesOf(EventIds) = {"RECEIVED", "FAILED", "CREATED"}

\* C17: after a fetch that the source answered, every open event of the
\* answer that has a state is stored, whatever else the answer holds.
C17_MalformedDocumentIsMasked ==
    (last.op = "fetch" /\ last.kind = "ok") => \A id \in last.open : HasEventId(rows, id)

\* C18: get_nested_value never raises; it returns the value at the path
\* when every key exists and every index is within its list, and "not
\* found" on a missing key, an out-of-range index or a type mismatch.
\* (Indexing a string and an index counted from the end are left open.)
C18_LookupFailsSoftly ==
    last.op = "lookup" =>
        /\ ~last.res.raised
        /\ ~IndexesLeniently(last.data, last.key_path) =>
              last.res.val = SoftLookup(last.data, last.key_path)

\* C19: whenever every rule of a mapping section resolves to a value, the
\* resolved document holds each mapping key at its dotted target path with
\* that value, also when one target path is a prefix of another.
C19_EveryKeyAtItsPath ==
    (/\ last.op = "resolve"
     /\ \A k \in DOMAIN config :
           ~RuleValue(last.event_data, config[k].field, config[k].rule).raised) =>
        /\ ~last.res.raised
        /\ \A k \in DOMAIN config :
              ValueAt(last.res.val[1], config[k].field) =
                  RuleValue(last.event_data, config[k].field, config[k].rule)

\* A run that selects nothing ends there and touches neither the store,
\* the token file nor the downstream; a run that selects something calls
\* the guard next, before any submission, and keeps the token it returns.
C20_GuardBeforeFirstBatch ==
    \A r \in Runs :
        /\ (run[r].pc = "fetched" /\ run'[r] # run[r]) =>
              /\ last'.op = "select"
              /\ rows' = rows /\ tokenFile' = tokenFile /\ bhomCreated' = bhomCreated
              /\ run'[r].pc = IF Matching(rows, Pending) = {} THEN "done" ELSE "selected"
        /\ (run[r].pc = "selected" /\ run'[r] # run[r]) =>
              /\ last'.op = "guard"
              /\ rows' = rows /\ bhomCreated' = bhomCreated
              /\ IF last'.raised THEN run'[r].pc = "failed"
                 ELSE run'[r] = [run[r] EXCEPT !.pc = "batching", !.token = last'.token]
        /\ (run[r].pc = "done" /\ run'[r] # run[r]) =>
              /\ last'.op = "finish"
              /\ rows' = rows /\ tokenFile' = tokenFile /\ bhomCreated' = bhomCreated

\* The guard is called by no other step, and every submission carries the
\* token the run got from it.
C20_SameTokenForEveryBatch ==
    /\ (last'.op = "guard" /\ last' # last) => run[last'.r].pc = "selected"
    /\ tokenFile' # tokenFile => last'.op = "guard" /\ last' # last
    /\ \A r \in Runs :
          (run[r].pc = "batching" /\ run'[r] # run[r]) =>
              /\ last'.op = "batch" => last'.token = run[r].token
              /\ run'[r].pc = "batching" => run'[r].token = run[r].token

\* C20: a run with at least one pending record calls the credential guard
\* once, before its first batch, and submits every batch with that token; a
\* run that finds no pending record calls neither the guard nor the
\* downstream and changes no record.
C20_GuardOncePerRun == [][C20_GuardBeforeFirstBatch /\ C20_SameTokenForEveryBatch]_vars

C20_Witness ==
    /\ last.op = "batch"
    /\ ~last.more
    /\ last.n = 1
    /\ last.token = "jwtB"
    /\ Cardinality(bhomCreated) = NumIds

====
